---- MODULE Spec2Model ----
(***************************************************************************)
(* Storage layer of the cw20-staking contract (contracts/cw20-staking/src/ *)
(* state.rs).  The contract keeps everything in one flat, byte-ordered     *)
(* key/value store; every component addresses it through a length-prefixed *)
(* namespace.  The model keeps that one store, builds every key the way    *)
(* the code builds it, and translates each storage function of state.rs    *)
(* into an operator on the store plus an action that applies it.           *)
(***************************************************************************)
EXTENDS Integers, Sequences, FiniteSets, TLC

VARIABLES
    storage,   \* the flat key/value store: raw key (byte sequence) -> raw value
    last,      \* the call made by the last step: operation, arguments, result
    height,    \* block height handed to the snapshot maps
    written,   \* history: per snapshot map and key, height -> value saved last at it
    unpaired,  \* history: a ledger record was stored outside a bond/unbond step
    hist       \* history of one queue: amounts inserted and drained, entries counted,
               \* and the pages a paginated listing has collected so far

vars == <<storage, last, height, written, unpaired, hist>>

-----------------------------------------------------------------------------
(* Bytes, byte strings and their order                                     *)

\* Option<T>: None is the empty sequence, Some(x) the one-element sequence.
None == <<>>

Some(x) == <<x>>

IsSome(o) == Len(o) = 1

\* Vec<u8>::cmp: byte-lexicographic comparison, -1 / 0 / 1.
RECURSIVE cmp_from(_, _, _)
cmp_from(a, b, i) ==
    IF i > Len(a) /\ i > Len(b) THEN 0
    ELSE IF i > Len(a) THEN -1
    ELSE IF i > Len(b) THEN 1
    ELSE IF a[i] < b[i] THEN -1
    ELSE IF a[i] > b[i] THEN 1
    ELSE cmp_from(a, b, i + 1)

cmp(a, b) == cmp_from(a, b, 1)

\* The low n bytes of t, least significant first.
RECURSIVE to_le_bytes_n(_, _)
to_le_bytes_n(t, n) ==
    IF n = 0 THEN <<>> ELSE <<t % 256>> \o to_le_bytes_n(t \div 256, n - 1)

\* u64::to_be_bytes, most significant byte first, built from the low end.
RECURSIVE to_be_bytes_n(_, _)
to_be_bytes_n(t, n) ==
    IF n = 0 THEN <<>> ELSE to_be_bytes_n(t \div 256, n - 1) \o <<t % 256>>

to_le_bytes(t) == to_le_bytes_n(t, 8)

to_be_bytes(t) == to_be_bytes_n(t, 8)

\* u64::from_be_bytes of an 8-byte array.
RECURSIVE from_be_bytes_acc(_, _, _)
from_be_bytes_acc(k, i, acc) ==
    IF i > Len(k) THEN acc ELSE from_be_bytes_acc(k, i + 1, acc * 256 + k[i])

from_be_bytes(k) == from_be_bytes_acc(k, 1, 0)

IsPrefix(p, k) == Len(p) <= Len(k) /\ SubSeq(k, 1, Len(p)) = p

StripPrefix(p, k) == SubSeq(k, Len(p) + 1, Len(k))

-----------------------------------------------------------------------------
(* Key namespaces                                                          *)

KEY_CONFIG == <<99, 111, 110, 102, 105, 103, 95, 118, 50>>

PREFIX_POOL_INFO == <<112, 111, 111, 108, 95, 105, 110, 102, 111, 95, 118, 51>>

PREFIX_REWARD == <<114, 101, 119, 97, 114, 100, 95, 118, 51>>

PREFIX_STAKER == <<115, 116, 97, 107, 101, 114, 95, 118, 51>>

PREFIX_REWARDS_PER_SEC ==
    <<114, 101, 119, 97, 114, 100, 115, 95, 112, 101, 114, 95, 115, 101, 99, 95, 118, 51>>

UNBONDING_PERIOD ==
    <<117, 110, 98, 111, 110, 100, 105, 110, 103, 95, 112, 101, 114, 105, 111, 100>>

LOCK_INFO == <<108, 111, 99, 107, 105, 110, 103, 95, 117, 115, 101, 114, 115>>

DEFAULT_LIMIT == 10

MAX_LIMIT == 30

\* Namespaces concatenated without their lengths.
to_unprefixed(ns) == ns

\* Bucket::new / Bucket::multilevel: each namespace is prefixed by its length
\* as two big-endian bytes, and the prefixed namespaces are concatenated.
to_length_prefixed(ns) == to_be_bytes_n(Len(ns), 2) \o ns

RECURSIVE to_length_prefixed_nested(_)
to_length_prefixed_nested(nss) ==
    IF nss = <<>> THEN <<>>
    ELSE to_length_prefixed(Head(nss)) \o to_length_prefixed_nested(Tail(nss))

-----------------------------------------------------------------------------
(* Stored values                                                           *)

\* A stored value is the serialisation of a typed value: its type and its
\* fields.  Deserialising as another type fails.
Ser(ty, fields) == [ty |-> ty, fields |-> fields]

Decodes(ty, raw) == raw.ty = ty

\* Bytes that are no serialisation of any type the contract stores.
Garbage == Ser("garbage", <<>>)

SerUint128(n) == Ser("Uint128", <<n>>)

DeUint128(raw) == raw.fields[1]

-----------------------------------------------------------------------------
(* The flat store and the buckets over it                                  *)

Has(s, k) == k \in DOMAIN s

\* Storage::set
Set(s, k, v) == [x \in (DOMAIN s) \cup {k} |-> IF x = k THEN v ELSE s[x]]

\* Storage::remove: removing an absent key changes nothing and does not fail.
Remove(s, k) == [x \in (DOMAIN s) \ {k} |-> s[x]]

\* Bucket::save: the value serialised under prefix ++ key.
BucketSave(s, prefix, key, raw) == Set(s, prefix \o key, raw)

BucketRemove(s, prefix, key) == Remove(s, prefix \o key)

\* Sorting of byte strings, ascending, by insertion.
RECURSIVE InsertSorted(_, _)
InsertSorted(k, seq) ==
    IF seq = <<>> THEN <<k>>
    ELSE IF cmp(k, Head(seq)) <= 0 THEN <<k>> \o seq
    ELSE <<Head(seq)>> \o InsertSorted(k, Tail(seq))

RECURSIVE SortKeys(_)
SortKeys(S) ==
    IF S = {} THEN <<>>
    ELSE LET k == CHOOSE x \in S : TRUE
         IN InsertSorted(k, SortKeys(S \ {k}))

Reverse(seq) == [i \in 1..Len(seq) |-> seq[Len(seq) + 1 - i]]

Take(seq, n) == SubSeq(seq, 1, IF n < Len(seq) THEN n ELSE Len(seq))

\* Bucket::range(start, end, order): the keys of the bucket (prefix stripped)
\* with start <= key < end, in byte order, reversed for Descending.
BucketRange(s, prefix, start, end, descending) ==
    LET keys == {StripPrefix(prefix, k) : k \in {x \in DOMAIN s : IsPrefix(prefix, x)}}
        inside == {k \in keys :
                     /\ (IsSome(start) => cmp(k, start[1]) >= 0)
                     /\ (IsSome(end) => cmp(k, end[1]) < 0)}
        asc == SortKeys(inside)
    IN IF descending THEN Reverse(asc) ELSE asc

-----------------------------------------------------------------------------
(* Amounts and timestamps                                                  *)

\* Largest amount the amount type holds in the model (the code's Uint128
\* holds up to 2^128 - 1).
MaxUint128 == 1000

\* Timestamp: whole seconds and the nanoseconds within the second.
Timestamp(secs, nanos) == [secs |-> secs, nanos |-> nanos]

\* Timestamp::seconds drops the nanoseconds within the second.
seconds(ts) == ts.secs

\* Timestamp::from_seconds
from_seconds(s) == Timestamp(s, 0)

LockInfo(amount, unlock_time) == [amount |-> amount, unlock_time |-> unlock_time]

-----------------------------------------------------------------------------
(* Results of calls                                                        *)

\* The record of a call: which operation, with which arguments, and what it
\* returned (ok / err, a total, a list of entries); `had` tells whether the
\* key the call wrote or removed was in the store before the call; `map` and
\* `key` name the snapshot map and the key of a snapshot write.
NoCall ==
    [op |-> "none", asset |-> <<>>, user |-> <<>>, time |-> 0, nanos |-> 0,
     amount |-> 0, start_after |-> None, limit |-> None, order |-> None,
     had |-> FALSE, ok |-> TRUE, err |-> "", total |-> 0, items |-> <<>>,
     map |-> "", key |-> <<>>]

Ok(items) == [ok |-> TRUE, err |-> "", items |-> items]

Err(msg) == [ok |-> FALSE, err |-> msg, items |-> <<>>]

-----------------------------------------------------------------------------
(* UnbondingQueue: insert_lock_info, read_user_lock_info,                  *)
(* remove_and_accumulate_lock_info                                         *)

\* Bucket::multilevel(storage, &[LOCK_INFO, asset_key, user])
LockBucket(asset_key, user) == to_length_prefixed_nested(<<LOCK_INFO, asset_key, user>>)

\* The key of a lock entry: the unlock time in whole seconds, 8 bytes.
LockKey(unlock_time) == to_be_bytes(seconds(unlock_time))

insert_lock_info(s, asset_key, user, lock_info) ==
    BucketSave(s, LockBucket(asset_key, user), LockKey(lock_info.unlock_time),
               SerUint128(lock_info.amount))

\* Order::try_from(order.unwrap_or(1)): 1 is Ascending, 2 is Descending.
OrderCode(order) == IF IsSome(order) THEN order[1] ELSE 1

\* OrderValid accepting every code.
OrderValidAny(order) == TRUE

OrderValid(order) == OrderCode(order) \in {1, 2}

\* EffectiveLimit without the clamp to MAX_LIMIT.
EffectiveLimitUnclamped(limit) == IF IsSome(limit) THEN limit[1] ELSE DEFAULT_LIMIT

\* limit.unwrap_or(DEFAULT_LIMIT).min(MAX_LIMIT)
EffectiveLimit(limit) ==
    LET l == IF IsSome(limit) THEN limit[1] ELSE DEFAULT_LIMIT
    IN IF l < MAX_LIMIT THEN l ELSE MAX_LIMIT

\* A range start that is the start_after key itself.
calc_range_start_inclusive(start_after) == start_after

\* oraiswap::querier::calc_range_start: the first key after the given one.
calc_range_start(start_after) ==
    IF IsSome(start_after) THEN Some(Append(start_after[1], 1)) ELSE None

\* RangeBounds without calc_range_start: the scan starts at start_after itself.
RangeBoundsFromKey(order_code, start_after) ==
    IF order_code = 1 THEN <<start_after, None>> ELSE <<None, start_after>>

\* (start, end) of the scan: Ascending starts after start_after, Descending
\* ends before it (the end of a range is exclusive).
RangeBounds(order_code, start_after) ==
    IF order_code = 1 THEN <<calc_range_start(start_after), None>>
    ELSE <<None, start_after>>

\* The .map closure of read_user_lock_info over the taken keys, collected
\* into a StdResult<Vec<LockInfo>>: the first failure is the result.
RECURSIVE CollectLockInfos(_, _, _, _, _)
CollectLockInfos(s, prefix, keys, i, acc) ==
    IF i > Len(keys) THEN Ok(acc)
    ELSE LET raw == s[prefix \o keys[i]]
         IN IF ~Decodes("Uint128", raw) THEN Err("ParseErr")
            ELSE IF Len(keys[i]) # 8 THEN Err("Casting u64 to timestamp fail")
            ELSE CollectLockInfos(s, prefix, keys, i + 1,
                    Append(acc, LockInfo(DeUint128(raw),
                                         from_seconds(from_be_bytes(keys[i])))))

\* read_user_lock_info scanning Ascending whatever the order asked for.
read_user_lock_info_ascending(s, asset_key, user, start_after, limit, order) ==
    IF ~OrderValid(order) THEN Err("Order must be 1 or 2")
    ELSE
        LET sa == IF IsSome(start_after) THEN Some(to_be_bytes(start_after[1])) ELSE None
            prefix == LockBucket(asset_key, user)
            keys == Take(BucketRange(s, prefix, calc_range_start(sa), None, FALSE),
                         EffectiveLimit(limit))
        IN CollectLockInfos(s, prefix, keys, 1, <<>>)

read_user_lock_info(s, asset_key, user, start_after, limit, order) ==
    IF ~OrderValid(order) THEN Err("Order must be 1 or 2")
    ELSE
        LET order_by == OrderCode(order)
            sa == IF IsSome(start_after) THEN Some(to_be_bytes(start_after[1])) ELSE None
            lim == EffectiveLimit(limit)
            bounds == RangeBounds(order_by, sa)
            prefix == LockBucket(asset_key, user)
            keys == Take(BucketRange(s, prefix, bounds[1], bounds[2], order_by = 2), lim)
        IN CollectLockInfos(s, prefix, keys, 1, <<>>)

\* An addition that wraps around instead of panicking.
Uint128AddWrapping(a, b) == (a + b) % (MaxUint128 + 1)

\* Uint128 += : the addition panics when the sum leaves the amount type.
Uint128Add(a, b) == IF a + b > MaxUint128 THEN -1 ELSE a + b

\* ScanMatured breaking already at a key equal to the timestamp's key.
RECURSIVE ScanMaturedBefore(_, _, _, _, _, _)
ScanMaturedBefore(s, prefix, keys, i, time_in_seconds, acc) ==
    IF i > Len(keys) THEN acc
    ELSE LET raw == s[prefix \o keys[i]]
         IN IF ~Decodes("Uint128", raw) THEN acc
            ELSE IF cmp(keys[i], time_in_seconds) >= 0 THEN acc
            ELSE ScanMaturedBefore(s, prefix, keys, i + 1, time_in_seconds,
                    [acc EXCEPT !.remove = Append(@, keys[i]),
                                !.amount = @ + DeUint128(raw)])

\* The scan of remove_and_accumulate_lock_info: `while let Some(Ok(..))` ends
\* at the end of the bucket or at the first entry that does not decode, and
\* the body breaks at the first key greater than the timestamp's key.
\* Result: the keys to remove and the accumulated amount (-1: the addition
\* panicked).
RECURSIVE ScanMatured(_, _, _, _, _, _)
ScanMatured(s, prefix, keys, i, time_in_seconds, acc) ==
    IF i > Len(keys) THEN acc
    ELSE LET raw == s[prefix \o keys[i]]
         IN IF ~Decodes("Uint128", raw) THEN acc
            ELSE IF cmp(keys[i], time_in_seconds) = 1 THEN acc
            ELSE LET sum == Uint128Add(acc.amount, DeUint128(raw))
                 IN IF sum < 0 THEN [acc EXCEPT !.panic = TRUE]
                    ELSE ScanMatured(s, prefix, keys, i + 1, time_in_seconds,
                            [acc EXCEPT !.remove = Append(@, keys[i]), !.amount = sum])

\* A removal loop that removes nothing.
RemoveNone(s, prefix, keys, i) == s

\* A removal loop that clears the whole bucket.
RemoveBucket(s, prefix, keys, i) ==
    [x \in {k \in DOMAIN s : ~IsPrefix(prefix, k)} |-> s[x]]

RECURSIVE RemoveAll(_, _, _, _)
RemoveAll(s, prefix, keys, i) ==
    IF i > Len(keys) THEN s
    ELSE RemoveAll(BucketRemove(s, prefix, keys[i]), prefix, keys, i + 1)

\* A drain that looks at the first entry of the queue only.
remove_and_accumulate_first(s, asset_key, user, timestamp) ==
    LET prefix == LockBucket(asset_key, user)
        scan == ScanMatured(s, prefix, Take(BucketRange(s, prefix, None, None, FALSE), 1), 1,
                            to_be_bytes(seconds(timestamp)),
                            [remove |-> <<>>, amount |-> 0, panic |-> FALSE])
    IN [storage |-> RemoveAll(s, prefix, scan.remove, 1),
        ok |-> TRUE, err |-> "", total |-> scan.amount, counted |-> scan.remove]

\* Returns the store afterwards and the result; `counted` are the keys whose
\* amounts the scan added to the total (remove_timestamps).  A panic aborts
\* the call before anything is removed.
remove_and_accumulate_lock_info(s, asset_key, user, timestamp) ==
    LET prefix == LockBucket(asset_key, user)
        scan == ScanMatured(s, prefix, BucketRange(s, prefix, None, None, FALSE), 1,
                            to_be_bytes(seconds(timestamp)),
                            [remove |-> <<>>, amount |-> 0, panic |-> FALSE])
    IN IF scan.panic
       THEN [storage |-> s, ok |-> FALSE, err |-> "attempt to add with overflow", total |-> 0,
             counted |-> <<>>]
       ELSE [storage |-> RemoveAll(s, prefix, scan.remove, 1),
             ok |-> TRUE, err |-> "", total |-> scan.amount, counted |-> scan.remove]

-----------------------------------------------------------------------------
(* Inputs of the model                                                     *)

\* Asset keys and staker keys (raw bytes).  The pairs collide when simply
\* concatenated: <<97>> \o <<98, 117>> = <<97, 98>> \o <<117>>.
AssetKeys == {<<97>>, <<97, 98>>}

Stakers == {<<98, 117>>, <<117>>}

\* The (asset, staker) queue the unbonding-queue specification works on.
QueueAssets == {<<97>>}

QueueUsers == {<<98, 117>>}

Times == {10, 20, 30}

Nanos == {0, 500000000}

Amounts == {3, 5, 7}

DrainTimes == {5, 10, 20, 30}

StartAfters == {None, Some(10), Some(20), Some(30)}

Limits == {None, Some(2)}

Orders == {None, Some(0), Some(1), Some(2), Some(3)}

-----------------------------------------------------------------------------
(* Initial state: an empty store, no call made yet                         *)

EmptyStore == [k \in {} |-> Garbage]

\* Nothing inserted, drained or listed yet.  `counted` maps an unlock time to
\* the number of drains that have counted the entry inserted last at it.
NoHist ==
    [inserts |-> 0, inserted |-> 0, drained |-> 0, overwrote |-> FALSE,
     counted |-> [t \in {} |-> 0],
     paging |-> FALSE, done |-> FALSE, calls |-> 0, visited |-> <<>>]

Init ==
    /\ storage = EmptyStore
    /\ last = NoCall
    /\ height = 1
    /\ written = [m \in {} |-> 0]
    /\ unpaired = FALSE
    /\ hist = NoHist

-----------------------------------------------------------------------------
(* Actions of the unbonding queue                                          *)

InsertLockInfo(a, u, t, n, amt) ==
    /\ storage' = insert_lock_info(storage, a, u, LockInfo(amt, Timestamp(t, n)))
    /\ last' = [NoCall EXCEPT !.op = "insert_lock_info", !.asset = a, !.user = u,
                              !.time = t, !.nanos = n, !.amount = amt,
                              !.had = Has(storage, LockBucket(a, u) \o to_be_bytes(t))]
    /\ UNCHANGED <<height, written, unpaired, hist>>

ReadUserLockInfo(a, u, sa, lim, ord) ==
    LET r == read_user_lock_info(storage, a, u, sa, lim, ord)
    IN /\ last' = [NoCall EXCEPT !.op = "read_user_lock_info", !.asset = a, !.user = u,
                                 !.start_after = sa, !.limit = lim, !.order = ord,
                                 !.ok = r.ok, !.err = r.err, !.items = r.items]
       /\ UNCHANGED <<storage, height, written, unpaired, hist>>

RemoveAndAccumulateLockInfo(a, u, t, n) ==
    LET r == remove_and_accumulate_lock_info(storage, a, u, Timestamp(t, n))
    IN /\ storage' = r.storage
       /\ last' = [NoCall EXCEPT !.op = "remove_and_accumulate_lock_info", !.asset = a,
                                 !.user = u, !.time = t, !.nanos = n,
                                 !.ok = r.ok, !.err = r.err, !.total = r.total]
       /\ UNCHANGED <<height, written, unpaired, hist>>

Next ==
    \/ \E a \in QueueAssets, u \in QueueUsers, t \in Times, n \in Nanos, amt \in Amounts :
          InsertLockInfo(a, u, t, n, amt)
    \/ \E a \in QueueAssets, u \in QueueUsers, sa \in StartAfters, lim \in Limits,
          ord \in Orders :
          ReadUserLockInfo(a, u, sa, lim, ord)
    \/ \E a \in QueueAssets, u \in QueueUsers, t \in DrainTimes, n \in Nanos :
          RemoveAndAccumulateLockInfo(a, u, t, n)

Spec == Init /\ [][Next]_vars

-----------------------------------------------------------------------------
(* Views of the store used to state the properties                         *)

\* The entries of one (asset, staker) queue that decode: unlock time and amount.
LockEntries(s, a, u) ==
    LET prefix == LockBucket(a, u)
    IN {[time |-> from_be_bytes(StripPrefix(prefix, k)), amount |-> DeUint128(s[k])] :
           k \in {x \in DOMAIN s : IsPrefix(prefix, x) /\ Decodes("Uint128", s[x])}}

RECURSIVE SumAmounts(_)
SumAmounts(S) ==
    IF S = {} THEN 0
    ELSE LET e == CHOOSE x \in S : TRUE IN e.amount + SumAmounts(S \ {e})

\* The entries a listing returned, in the shape of LockEntries.
ItemEntries(items) ==
    {[time |-> items[i].unlock_time.secs, amount |-> items[i].amount] : i \in 1..Len(items)}

IsDrain(c) == c.op = "remove_and_accumulate_lock_info"

IsInsert(c) == c.op = "insert_lock_info"

IsRead(c) == c.op = "read_user_lock_info"

-----------------------------------------------------------------------------
(* C1 *)

-----------------------------------------------------------------------------
(* C2 *)

\* C2: insert_lock_info at a timestamp that already holds an entry combines
\* the amounts: afterwards the one entry at that timestamp holds the stored
\* amount plus the inserted amount.
C2_InsertCombines ==
    [][IsInsert(last') =>
        LET before == LockEntries(storage, last'.asset, last'.user)
            after == LockEntries(storage', last'.asset, last'.user)
            old == {e \in before : e.time = last'.time}
        IN {e \in after : e.time = last'.time} =
              {[time |-> last'.time, amount |-> SumAmounts(old) + last'.amount]}]_vars

-----------------------------------------------------------------------------
(* C6 *)

\* The entries of the queue on the far side of start_after in the direction
\* of the scan (all of them when start_after is absent).
Beyond(entries, start_after, code) ==
    {e \in entries :
        IsSome(start_after) =>
            IF code = 1 THEN e.time > start_after[1] ELSE e.time < start_after[1]}

\* C6: start_after is exclusive in both directions: an ascending listing
\* returns only entries strictly after start_after, a descending one only
\* entries strictly before it, never the entry at start_after; and the scan
\* skips nothing: it starts at the nearest entry beyond start_after (the
\* smallest or largest entry when start_after is absent).
C6_StartAfterExclusive ==
    (IsRead(last) /\ last.ok) =>
        LET code == IF IsSome(last.order) THEN last.order[1] ELSE 1
            entries == LockEntries(storage, last.asset, last.user)
            beyond == Beyond(entries, last.start_after, code)
            got == ItemEntries(last.items)
        IN /\ got \subseteq beyond
           /\ \A e \in got : IsSome(last.start_after) => e.time # last.start_after[1]
           /\ \A e \in beyond \ got : \A g \in got :
                 IF code = 1 THEN g.time < e.time ELSE g.time > e.time
           /\ (beyond # {} /\ EffectiveLimit(last.limit) > 0) => got # {}

\* The example of the claim: start_after = 20 ascending over {10, 20, 30}
\* returned only the entry at 30.
C6_Witness ==
    /\ IsRead(last) /\ last.ok /\ last.start_after = Some(20) /\ last.order = Some(1)
    /\ {e.time : e \in LockEntries(storage, last.asset, last.user)} = {10, 20, 30}
    /\ Len(last.items) = 1 /\ last.items[1].unlock_time.secs = 30

-----------------------------------------------------------------------------
(* C9 *)

\* C9: read_user_lock_info accepts the order codes 1 and 2 (and an absent
\* order); with any other order code it returns an error and no entries,
\* whatever the queue, start_after and limit.
C9_OrderCodes ==
    IsRead(last) =>
        IF IsSome(last.order) /\ last.order[1] \notin {1, 2}
        THEN ~last.ok /\ last.items = <<>>
        ELSE last.ok

\* A listing with order code 3 over a queue with entries failed.
C9_Witness ==
    /\ IsRead(last) /\ last.order = Some(3) /\ ~last.ok
    /\ LockEntries(storage, last.asset, last.user) # {}

-----------------------------------------------------------------------------
(* The unbonding queue grown beyond MAX_LIMIT entries                      *)

\* Most entries the long queue is grown to.
MaxEntries == 31

\* Most entries added below the first one.
MaxBelow == 1

\* Unlock time of the first entry of the long queue; the queue then grows by
\* one second at either end, so its keys differ in their last two bytes.
BulkBase == 256

BulkAmounts == {4}

BulkStartAfters == {None, Some(BulkBase)}

BulkLimits == {None, Some(12), Some(100)}

BulkOrders == {None, Some(2)}

QueueTimes(s, a, u) == {e.time : e \in LockEntries(s, a, u)}

\* The fresh unlock times next to the ones already queued.
BulkTimes(s, a, u) ==
    LET ts == QueueTimes(s, a, u)
    IN IF ts = {} THEN {BulkBase}
       ELSE IF Cardinality(ts) >= MaxEntries THEN {}
       ELSE {t \in {BulkBase - Cardinality({x \in ts : x < BulkBase}) - 1} :
                BulkBase - t <= MaxBelow}
            \cup {BulkBase + Cardinality({x \in ts : x > BulkBase}) + 1}

BulkInsertLockInfo(a, u, t, amt) == InsertLockInfo(a, u, t, 0, amt)

NextBulk ==
    \/ \E a \in QueueAssets, u \in QueueUsers :
          \E t \in BulkTimes(storage, a, u), amt \in BulkAmounts :
             BulkInsertLockInfo(a, u, t, amt)
    \/ \E a \in QueueAssets, u \in QueueUsers, sa \in BulkStartAfters, lim \in BulkLimits,
          ord \in BulkOrders :
          ReadUserLockInfo(a, u, sa, lim, ord)

SpecBulk == Init /\ [][NextBulk]_vars

-----------------------------------------------------------------------------
(* C5 *)

StrictlyIncreasing(items) ==
    \A i \in 1..(Len(items) - 1) : items[i].unlock_time.secs < items[i + 1].unlock_time.secs

StrictlyDecreasing(items) ==
    \A i \in 1..(Len(items) - 1) : items[i].unlock_time.secs > items[i + 1].unlock_time.secs

\* The call of `last` made again with the other order code.
OtherOrder(c) ==
    read_user_lock_info(storage, c.asset, c.user, c.start_after, c.limit,
                        IF c.order = Some(2) THEN Some(1) ELSE Some(2))

-----------------------------------------------------------------------------
(* C7 *)

\* C7: read_user_lock_info never returns more than 30 entries: at most 10
\* with limit absent, at most min(n, 30) with limit = n, and a call with a
\* limit above 30 returns exactly what the call with limit = 30 returns.
C7_LimitClamped ==
    (IsRead(last) /\ last.ok) =>
        /\ Len(last.items) <= 30
        /\ (~IsSome(last.limit) => Len(last.items) <= 10)
        /\ (IsSome(last.limit) => Len(last.items) <= last.limit[1])
        /\ (IsSome(last.limit) /\ last.limit[1] > 30) =>
              last.items = read_user_lock_info(storage, last.asset, last.user,
                                               last.start_after, Some(30), last.order).items

\* A listing with limit = 100 of a queue of 31 entries returned 30 entries.
C7_Witness ==
    /\ IsRead(last) /\ last.ok /\ last.limit = Some(100)
    /\ Cardinality(LockEntries(storage, last.asset, last.user)) = 31
    /\ Len(last.items) = 30

-----------------------------------------------------------------------------
(* The unbonding queue over a store that holds undecodable values          *)

\* The functions take any `&mut dyn Storage`: a write to the store that does
\* not go through insert_lock_info (another version of the contract, a
\* migration, corruption) can leave bytes under a lock key that do not
\* decode as an amount.
CorruptLockEntry(a, u, t) ==
    /\ storage' = Set(storage, LockBucket(a, u) \o to_be_bytes(t), Garbage)
    /\ last' = [NoCall EXCEPT !.op = "raw_set", !.asset = a, !.user = u, !.time = t]
    /\ UNCHANGED <<height, written, unpaired, hist>>

NextRaw ==
    \/ \E a \in QueueAssets, u \in QueueUsers, t \in Times, amt \in Amounts :
          InsertLockInfo(a, u, t, 0, amt)
    \/ \E a \in QueueAssets, u \in QueueUsers, t \in Times :
          CorruptLockEntry(a, u, t)
    \/ \E a \in QueueAssets, u \in QueueUsers, t \in DrainTimes :
          RemoveAndAccumulateLockInfo(a, u, t, 0)

SpecRaw == Init /\ [][NextRaw]_vars

\* The unlock times of the entries of a queue that do not decode.
UndecodableTimes(s, a, u) ==
    LET prefix == LockBucket(a, u)
    IN {from_be_bytes(StripPrefix(prefix, k)) :
           k \in {x \in DOMAIN s : IsPrefix(prefix, x) /\ ~Decodes("Uint128", s[x])}}

\* The scan at timestamp T reaches the entry at time t: no entry before it
\* ends the scan, that is, every earlier entry has matured.
ScanReaches(s, a, u, T, t) ==
    \A e \in LockEntries(s, a, u) : e.time < t => e.time <= T

-----------------------------------------------------------------------------
(* C10 *)

\* C10: when the scan of remove_and_accumulate_lock_info meets a stored entry
\* that fails to decode, the call signals an error: it does not return Ok
\* with a partial total and removes nothing.
C10_DecodeFailureSignalled ==
    [][(/\ IsDrain(last')
        /\ \E t \in UndecodableTimes(storage, last'.asset, last'.user) :
              ScanReaches(storage, last'.asset, last'.user, last'.time, t))
       => (~last'.ok /\ storage' = storage)]_vars

-----------------------------------------------------------------------------
(* StakerRegistry: stakers_store, stakers_read                             *)

SerBool(b) == Ser("bool", <<IF b THEN 1 ELSE 0>>)

\* Bucket::multilevel(storage, &[PREFIX_STAKER, asset_key])
StakerBucket(asset_key) == to_length_prefixed_nested(<<PREFIX_STAKER, asset_key>>)

\* stakers_store(storage, asset_key).save(staker, &true)
stakers_store_save(s, asset_key, staker) ==
    BucketSave(s, StakerBucket(asset_key), staker, SerBool(TRUE))

\* A remove that loads the record first and fails when there is none.
stakers_store_remove_loaded(s, asset_key, staker) ==
    IF Has(s, StakerBucket(asset_key) \o staker)
    THEN [storage |-> BucketRemove(s, StakerBucket(asset_key), staker), ok |-> TRUE]
    ELSE [storage |-> s, ok |-> FALSE]

\* stakers_store(storage, asset_key).remove(staker): Bucket::remove returns
\* nothing and cannot fail.
stakers_store_remove(s, asset_key, staker) ==
    [storage |-> BucketRemove(s, StakerBucket(asset_key), staker), ok |-> TRUE]

\* stakers_read(storage, asset_key).range(None, None, Order::Ascending),
\* collected: the staker keys of the asset in byte order.
RECURSIVE CollectStakers(_, _, _, _, _)
CollectStakers(s, prefix, keys, i, acc) ==
    IF i > Len(keys) THEN Ok(acc)
    ELSE IF ~Decodes("bool", s[prefix \o keys[i]]) THEN Err("ParseErr")
    ELSE CollectStakers(s, prefix, keys, i + 1, Append(acc, keys[i]))

stakers_read_range(s, asset_key) ==
    LET prefix == StakerBucket(asset_key)
    IN CollectStakers(s, prefix, BucketRange(s, prefix, None, None, FALSE), 1, <<>>)

RegistryStakers == {<<98, 117>>, <<117>>, <<98>>}

StakersSave(a, st) ==
    /\ storage' = stakers_store_save(storage, a, st)
    /\ last' = [NoCall EXCEPT !.op = "stakers_store.save", !.asset = a, !.user = st,
                              !.had = Has(storage, StakerBucket(a) \o st)]
    /\ UNCHANGED <<height, written, unpaired, hist>>

StakersRemove(a, st) ==
    LET r == stakers_store_remove(storage, a, st)
    IN /\ storage' = r.storage
       /\ last' = [NoCall EXCEPT !.op = "stakers_store.remove", !.asset = a, !.user = st,
                                 !.had = Has(storage, StakerBucket(a) \o st), !.ok = r.ok]
       /\ UNCHANGED <<height, written, unpaired, hist>>

\* A listing that removes what it lists.
StakersListConsuming(a) ==
    LET r == stakers_read_range(storage, a)
    IN /\ last' = [NoCall EXCEPT !.op = "stakers_read.range", !.asset = a,
                                 !.ok = r.ok, !.err = r.err, !.items = r.items]
       /\ storage' = RemoveAll(storage, StakerBucket(a), r.items, 1)
       /\ UNCHANGED <<height, written, unpaired, hist>>

StakersList(a) ==
    LET r == stakers_read_range(storage, a)
    IN /\ last' = [NoCall EXCEPT !.op = "stakers_read.range", !.asset = a,
                                 !.ok = r.ok, !.err = r.err, !.items = r.items]
       /\ UNCHANGED <<storage, height, written, unpaired, hist>>

NextRegistry ==
    \/ \E a \in AssetKeys, st \in RegistryStakers : StakersSave(a, st)
    \/ \E a \in AssetKeys, st \in RegistryStakers : StakersRemove(a, st)
    \/ \E a \in AssetKeys : StakersList(a)

SpecRegistry == Init /\ [][NextRegistry]_vars

-----------------------------------------------------------------------------
(* C8 *)

\* How often a staker occurs in a listing.
Occurrences(items, st) == Cardinality({i \in 1..Len(items) : items[i] = st})

\* C8: the staker registry is a set: after an add the asset's listing holds
\* the staker exactly once, and adding a staker that is listed already leaves
\* every listing as it was; removing a staker that is not listed does not
\* fail and leaves every listing as it was.
C8_RegistryIsSet ==
    [][/\ (last'.op = "stakers_store.save" =>
            /\ Occurrences(stakers_read_range(storage', last'.asset).items, last'.user) = 1
            /\ (Occurrences(stakers_read_range(storage, last'.asset).items, last'.user) = 1
                  => \A a \in AssetKeys :
                        stakers_read_range(storage', a) = stakers_read_range(storage, a)))
       /\ ((/\ last'.op = "stakers_store.remove"
            /\ Occurrences(stakers_read_range(storage, last'.asset).items, last'.user) = 0)
             => /\ last'.ok
                /\ \A a \in AssetKeys :
                      stakers_read_range(storage', a) = stakers_read_range(storage, a))]_vars

\* A staker listed already was added again and is listed once, next to
\* another staker of the asset.
C8_Witness ==
    /\ last.op = "stakers_store.save" /\ last.had
    /\ Occurrences(stakers_read_range(storage, last.asset).items, last.user) = 1
    /\ Len(stakers_read_range(storage, last.asset).items) = 2

-----------------------------------------------------------------------------
(* PoolLedger and RewardLedger: store_pool_info, read_pool_info,           *)
(* rewards_store, rewards_read                                             *)

PoolInfo(staking_token, pending_reward, total_bond_amount, reward_index) ==
    [staking_token |-> staking_token, pending_reward |-> pending_reward,
     total_bond_amount |-> total_bond_amount, reward_index |-> reward_index]

RewardInfo(native_token, index, bond_amount, pending_reward, pending_withdraw) ==
    [native_token |-> native_token, index |-> index, bond_amount |-> bond_amount,
     pending_reward |-> pending_reward, pending_withdraw |-> pending_withdraw]

\* Bucket::new(storage, PREFIX_POOL_INFO)
PoolBucket == to_length_prefixed(PREFIX_POOL_INFO)

store_pool_info(s, asset_key, pool_info) ==
    BucketSave(s, PoolBucket, asset_key, Ser("PoolInfo", pool_info))

\* Bucket::load: the value, or an error when the key is absent or the value
\* does not decode.
BucketLoad(s, prefix, key, ty) ==
    IF ~Has(s, prefix \o key) THEN [ok |-> FALSE, err |-> "NotFound", value |-> Garbage.fields]
    ELSE IF ~Decodes(ty, s[prefix \o key])
         THEN [ok |-> FALSE, err |-> "ParseErr", value |-> Garbage.fields]
    ELSE [ok |-> TRUE, err |-> "", value |-> s[prefix \o key].fields]

read_pool_info(s, asset_key) == BucketLoad(s, PoolBucket, asset_key, "PoolInfo")

\* RewardBucket without the staker level: one bucket shared by all stakers.
RewardBucketShared(staker) == to_length_prefixed(PREFIX_REWARD)

\* Bucket::multilevel(storage, &[PREFIX_REWARD, staker])
RewardBucket(staker) == to_length_prefixed_nested(<<PREFIX_REWARD, staker>>)

\* rewards_store(storage, staker).save(asset_key, &reward_info)
rewards_store_save(s, staker, asset_key, reward_info) ==
    BucketSave(s, RewardBucket(staker), asset_key, Ser("RewardInfo", reward_info))

\* rewards_store(storage, staker).remove(asset_key)
rewards_store_remove(s, staker, asset_key) ==
    BucketRemove(s, RewardBucket(staker), asset_key)

\* rewards_read(storage, staker).load(asset_key)
rewards_read_load(s, staker, asset_key) ==
    BucketLoad(s, RewardBucket(staker), asset_key, "RewardInfo")

\* Largest bonded amount of one asset in the ledger specification.
MaxBond == 2

LedgerStakers == {<<98, 117>>, <<117>>}

BondAmounts == {1}

\* The token of a pool: the asset key itself.
NewPool(a, total) == PoolInfo(a, 0, total, 0)

NewReward(bond) == RewardInfo(FALSE, 0, bond, 0, <<>>)

\* The store operations called on their own.
StorePoolInfo(a, total) ==
    /\ storage' = store_pool_info(storage, a, NewPool(a, total))
    /\ last' = [NoCall EXCEPT !.op = "store_pool_info", !.asset = a]
    /\ unpaired' = TRUE
    /\ UNCHANGED <<height, written, hist>>

RewardsSave(st, a, bond) ==
    /\ storage' = rewards_store_save(storage, st, a, NewReward(bond))
    /\ last' = [NoCall EXCEPT !.op = "rewards_store.save", !.asset = a]
    /\ unpaired' = TRUE
    /\ UNCHANGED <<height, written, hist>>

RewardsRemove(st, a) ==
    /\ Has(storage, RewardBucket(st) \o a)
    /\ storage' = rewards_store_remove(storage, st, a)
    /\ last' = [NoCall EXCEPT !.op = "rewards_store.remove", !.asset = a]
    /\ unpaired' = TRUE
    /\ UNCHANGED <<height, written, hist>>

\* The steps of the contract that call them together: registering an asset
\* stores a pool with nothing bonded; bonding adds the amount to the pool's
\* total and to the staker's record; unbonding takes it from both, and
\* removes the record that reaches zero.
RegisterAsset(a) ==
    /\ ~read_pool_info(storage, a).ok
    /\ storage' = store_pool_info(storage, a, NewPool(a, 0))
    /\ last' = [NoCall EXCEPT !.op = "register_asset", !.asset = a]
    /\ UNCHANGED <<height, written, unpaired, hist>>

Bond(st, a, d) ==
    LET pool == read_pool_info(storage, a)
        reward == rewards_read_load(storage, st, a)
        info == IF reward.ok THEN reward.value ELSE NewReward(0)
    IN /\ pool.ok
       /\ reward.ok \/ reward.err = "NotFound"
       /\ pool.value.total_bond_amount + d <= MaxBond
       /\ info.bond_amount + d <= MaxBond
       /\ storage' =
             rewards_store_save(
                store_pool_info(storage, a,
                   [pool.value EXCEPT !.total_bond_amount = @ + d]),
                st, a, [info EXCEPT !.bond_amount = @ + d])
       /\ last' = [NoCall EXCEPT !.op = "bond", !.asset = a]
       /\ UNCHANGED <<height, written, unpaired, hist>>

Unbond(st, a, d) ==
    LET pool == read_pool_info(storage, a)
        reward == rewards_read_load(storage, st, a)
    IN /\ pool.ok /\ reward.ok
       /\ reward.value.bond_amount >= d
       /\ pool.value.total_bond_amount >= d
       /\ LET pooled == store_pool_info(storage, a,
                           [pool.value EXCEPT !.total_bond_amount = @ - d])
              left == [reward.value EXCEPT !.bond_amount = @ - d]
          IN storage' =
                IF left.bond_amount = 0 /\ left.pending_reward = 0
                THEN rewards_store_remove(pooled, st, a)
                ELSE rewards_store_save(pooled, st, a, left)
       /\ last' = [NoCall EXCEPT !.op = "unbond", !.asset = a]
       /\ UNCHANGED <<height, written, unpaired, hist>>

NextLedger ==
    \/ \E a \in AssetKeys, total \in 0..MaxBond : StorePoolInfo(a, total)
    \/ \E st \in LedgerStakers, a \in AssetKeys, bond \in BondAmounts : RewardsSave(st, a, bond)
    \/ \E st \in LedgerStakers, a \in AssetKeys : RewardsRemove(st, a)
    \/ \E a \in AssetKeys : RegisterAsset(a)
    \/ \E st \in LedgerStakers, a \in AssetKeys, d \in BondAmounts : Bond(st, a, d)
    \/ \E st \in LedgerStakers, a \in AssetKeys, d \in BondAmounts : Unbond(st, a, d)

SpecLedger == Init /\ [][NextLedger]_vars

\* The sum of bond_amount over the RewardInfo records stored for an asset.
RECURSIVE SumBonds(_, _, _)
SumBonds(s, a, stakers) ==
    IF stakers = {} THEN 0
    ELSE LET st == CHOOSE x \in stakers : TRUE
             r == rewards_read_load(s, st, a)
         IN (IF r.ok THEN r.value.bond_amount ELSE 0) + SumBonds(s, a, stakers \ {st})

TotalsMatch(s) ==
    \A a \in AssetKeys :
        read_pool_info(s, a).ok =>
            read_pool_info(s, a).value.total_bond_amount = SumBonds(s, a, LedgerStakers)

-----------------------------------------------------------------------------
(* C3 *)

\* C3 as claimed: in every state reached by any sequence of store_pool_info,
\* rewards_store(..).save and rewards_store(..).remove, every stored
\* PoolInfo.total_bond_amount equals the sum of bond_amount over the
\* RewardInfo records stored for the asset.
C3_TotalEqualsSum == TotalsMatch(storage)

\* C3 as amended: the store operations keep whatever they are given; the
\* totals equal the sums in every state reached by the contract's steps that
\* store both records together (register, bond, unbond), as long as no store
\* operation was called on its own.
C3_TotalEqualsSumAfterSteps == ~unpaired => TotalsMatch(storage)

\* Two stakers bonded to one asset by bond steps alone, and the pool's total
\* is the sum of their records.
C3_Witness ==
    /\ ~unpaired /\ last.op = "bond"
    /\ read_pool_info(storage, last.asset).ok
    /\ read_pool_info(storage, last.asset).value.total_bond_amount = 2
    /\ \A st \in LedgerStakers :
          /\ rewards_read_load(storage, st, last.asset).ok
          /\ rewards_read_load(storage, st, last.asset).value.bond_amount = 1

-----------------------------------------------------------------------------
(* SnapshotStore: STAKED_BALANCES and STAKED_TOTAL, two SnapshotMaps with  *)
(* Strategy::EveryBlock                                                    *)

STAKED_BALANCES_PK ==
    <<115, 116, 97, 107, 101, 100, 95, 98, 97, 108, 97, 110, 99, 101, 115>>

STAKED_BALANCES_CHECKPOINTS ==
    <<115, 116, 97, 107, 101, 100, 95, 98, 97, 108, 97, 110, 99, 101, 95, 95, 99, 104,
    101, 99, 107, 112, 111, 105, 110, 116, 115>>

STAKED_BALANCES_CHANGELOG ==
    <<115, 116, 97, 107, 101, 100, 95, 98, 97, 108, 97, 110, 99, 101, 95, 95, 99, 104,
    97, 110, 103, 101, 108, 111, 103>>

STAKED_TOTAL_PK == <<116, 111, 116, 97, 108, 95, 115, 116, 97, 107, 101, 100>>

STAKED_TOTAL_CHECKPOINTS ==
    <<116, 111, 116, 97, 108, 95, 115, 116, 97, 107, 101, 100, 95, 95, 99, 104, 101, 99,
    107, 112, 111, 105, 110, 116, 115>>

STAKED_TOTAL_CHANGELOG ==
    <<116, 111, 116, 97, 108, 95, 115, 116, 97, 107, 101, 100, 95, 95, 99, 104, 97, 110,
    103, 101, 108, 111, 103>>

SnapshotMap(name, pk, checkpoints, changelog) ==
    [name |-> name, pk |-> pk, checkpoints |-> checkpoints, changelog |-> changelog]

STAKED_BALANCES ==
    SnapshotMap("STAKED_BALANCES", STAKED_BALANCES_PK, STAKED_BALANCES_CHECKPOINTS,
                STAKED_BALANCES_CHANGELOG)

STAKED_TOTAL ==
    SnapshotMap("STAKED_TOTAL", STAKED_TOTAL_PK, STAKED_TOTAL_CHECKPOINTS,
                STAKED_TOTAL_CHANGELOG)

\* All parts of a key concatenated as they are.
RECURSIVE JoinParts(_)
JoinParts(parts) == IF parts = <<>> THEN <<>> ELSE Head(parts) \o JoinParts(Tail(parts))

\* A map key without the lengths of the parts.
MapKeyJoined(namespace, parts) == to_length_prefixed(namespace) \o JoinParts(parts)

\* The storage key of a map entry: the namespace and every part of the key
\* but the last are length-prefixed, the last part is appended as it is.
MapKey(namespace, parts) ==
    to_length_prefixed(namespace)
        \o to_length_prefixed_nested(SubSeq(parts, 1, Len(parts) - 1))
        \o parts[Len(parts)]

\* The prefix of the changelog entries of one key: Map<(K, u64), ChangeSet>
\* prefixed by K, every part of K length-prefixed.
ChangelogPrefix(m, k) == to_length_prefixed(m.changelog) \o to_length_prefixed_nested(k)

\* ChangeSet { old }: the value the key held before the block's first write.
SerChangeSet(old) == Ser("ChangeSet", old)

\* The primary map: may_load
snapshot_may_load(s, m, k) ==
    IF Has(s, MapKey(m.pk, k)) THEN Some(DeUint128(s[MapKey(m.pk, k)])) ELSE None

\* write_change recording the previous value at every write of the block.
snapshot_write_change_always(s, m, k, h) ==
    Set(s, ChangelogPrefix(m, k) \o to_be_bytes(h), SerChangeSet(snapshot_may_load(s, m, k)))

\* SnapshotMap::write_change: if the changelog has an entry for this key and
\* block already, nothing more is written; otherwise the previous value is.
snapshot_write_change(s, m, k, h) ==
    IF Has(s, ChangelogPrefix(m, k) \o to_be_bytes(h)) THEN s
    ELSE Set(s, ChangelogPrefix(m, k) \o to_be_bytes(h),
             SerChangeSet(snapshot_may_load(s, m, k)))

\* SnapshotMap::save(store, k, &data, height); with Strategy::EveryBlock
\* should_checkpoint is always true.
snapshot_save(s, m, k, data, h) ==
    Set(snapshot_write_change(s, m, k, h), MapKey(m.pk, k), SerUint128(data))

\* SnapshotMap::may_load_at_height(store, k, height): the `old` of the first
\* changelog entry of the key at a height >= the given one; without such an
\* entry, the current value.
snapshot_may_load_at_height(s, m, k, h) ==
    LET prefix == ChangelogPrefix(m, k)
        logged == BucketRange(s, prefix, Some(to_be_bytes(h)), None, FALSE)
    IN IF logged # <<>> THEN s[prefix \o logged[1]].fields
       ELSE snapshot_may_load(s, m, k)

\* Highest block height of the snapshot specification.
MaxHeight == 9

\* Most changelog entries written in the snapshot specification.
MaxChangelog == 3

\* The contract runs in some blocks only: heights advance by these steps.
BlockJumps == {2, 4}

SnapshotValues == {1, 2}

\* The keys written: one (asset, staker) of STAKED_BALANCES, one asset of
\* STAKED_TOTAL.
SnapshotKeys == {<<STAKED_BALANCES, <<<<97>>, <<98, 117>>>>>>, <<STAKED_TOTAL, <<<<97>>>>>>}

WrittenAt(m, k) ==
    IF <<m.name, k>> \in DOMAIN written THEN written[<<m.name, k>>] ELSE [h \in {} |-> 0]

ChangelogSize(s) ==
    Cardinality({x \in DOMAIN s : s[x].ty = "ChangeSet"})

SnapshotSave(m, k, v) ==
    /\ height \in DOMAIN WrittenAt(m, k) \/ ChangelogSize(storage) < MaxChangelog
    /\ storage' = snapshot_save(storage, m, k, v, height)
    /\ written' =
          [x \in (DOMAIN written) \cup {<<m.name, k>>} |->
              IF x = <<m.name, k>>
              THEN [h \in (DOMAIN WrittenAt(m, k)) \cup {height} |->
                       IF h = height THEN v ELSE WrittenAt(m, k)[h]]
              ELSE written[x]]
    /\ last' = [NoCall EXCEPT !.op = "snapshot.save", !.amount = v,
                              !.map = m.name, !.key = k]
    /\ UNCHANGED <<height, unpaired, hist>>

NextBlock(d) ==
    /\ height + d <= MaxHeight
    /\ height' = height + d
    /\ last' = [NoCall EXCEPT !.op = "next_block"]
    /\ UNCHANGED <<storage, written, unpaired, hist>>

NextSnapshot ==
    \/ \E mk \in SnapshotKeys, v \in SnapshotValues : SnapshotSave(mk[1], mk[2], v)
    \/ \E d \in BlockJumps : NextBlock(d)

SpecSnapshot == Init /\ [][NextSnapshot]_vars

-----------------------------------------------------------------------------
(* C4 *)

\* The value current after the last write to the key among the given
\* heights, None when there is none.
ValueAfterLast(m, k, heights) ==
    IF heights = {} THEN None
    ELSE Some(WrittenAt(m, k)[CHOOSE h \in heights : \A g \in heights : g <= h])

QueriedHeights == (0..(MaxHeight + 1)) \cup {100}

-----------------------------------------------------------------------------
(* Listings: read_all_pool_infos and the range scans of rewards_read and   *)
(* stakers_read                                                            *)

\* ReadonlyBucket::range(None, None, Ascending) collected into a result: the
\* pairs (key, value) in byte order of the keys, or the error of the first
\* value that does not decode.
RECURSIVE CollectRecords(_, _, _, _, _, _)
CollectRecords(s, prefix, keys, i, ty, acc) ==
    IF i > Len(keys) THEN Ok(acc)
    ELSE IF ~Decodes(ty, s[prefix \o keys[i]]) THEN Err("ParseErr")
    ELSE CollectRecords(s, prefix, keys, i + 1, ty,
                        Append(acc, <<keys[i], s[prefix \o keys[i]].fields>>))

read_all_pool_infos(s) ==
    CollectRecords(s, PoolBucket, BucketRange(s, PoolBucket, None, None, FALSE), 1,
                   "PoolInfo", <<>>)

\* rewards_read(storage, staker).range(None, None, Order::Ascending), collected.
rewards_read_range(s, staker) ==
    LET prefix == RewardBucket(staker)
    IN CollectRecords(s, prefix, BucketRange(s, prefix, None, None, FALSE), 1,
                      "RewardInfo", <<>>)

ReadAllPoolInfos ==
    LET r == read_all_pool_infos(storage)
    IN /\ last' = [NoCall EXCEPT !.op = "read_all_pool_infos",
                                 !.ok = r.ok, !.err = r.err, !.items = r.items]
       /\ UNCHANGED <<storage, height, written, unpaired, hist>>

RewardsList(st) ==
    LET r == rewards_read_range(storage, st)
    IN /\ last' = [NoCall EXCEPT !.op = "rewards_read.range", !.user = st,
                                 !.ok = r.ok, !.err = r.err, !.items = r.items]
       /\ UNCHANGED <<storage, height, written, unpaired, hist>>

\* Inputs of the listing specification: every component gets records, and
\* every listing is called on them.
ListingTimes == {10, 20}

ListingAmounts == {3}

ListingStartAfters == {None, Some(10)}

ListingLimits == {None, Some(1)}

ListingOrders == {None, Some(2)}

ListingStaker == <<117>>

ListingAsset == <<97>>

NextListing ==
    \/ \E t \in ListingTimes, amt \in ListingAmounts :
          InsertLockInfo(ListingAsset, ListingStaker, t, 0, amt)
    \/ \E a \in AssetKeys : StorePoolInfo(a, 1)
    \/ \E a \in AssetKeys : RewardsSave(ListingStaker, a, 1)
    \/ \E st \in Stakers : StakersSave(ListingAsset, st)
    \/ SnapshotSave(STAKED_TOTAL, <<ListingAsset>>, 1)
    \/ \E sa \in ListingStartAfters, lim \in ListingLimits, ord \in ListingOrders :
          ReadUserLockInfo(ListingAsset, ListingStaker, sa, lim, ord)
    \/ ReadAllPoolInfos
    \/ \E st \in Stakers : RewardsList(st)
    \/ \E a \in AssetKeys : StakersList(a)

SpecListing == Init /\ [][NextListing]_vars

-----------------------------------------------------------------------------
(* C11 *)

IsListing(c) ==
    c.op \in {"read_user_lock_info", "read_all_pool_infos", "rewards_read.range",
              "stakers_read.range"}

\* The result of making the recorded listing call again on store s.
Rerun(c, s) ==
    IF c.op = "read_user_lock_info"
    THEN read_user_lock_info(s, c.asset, c.user, c.start_after, c.limit, c.order)
    ELSE IF c.op = "read_all_pool_infos" THEN read_all_pool_infos(s)
    ELSE IF c.op = "rewards_read.range" THEN rewards_read_range(s, c.user)
    ELSE stakers_read_range(s, c.asset)

\* C11: the listing operations (read_user_lock_info, read_all_pool_infos, the
\* range scans of rewards_read and stakers_read) leave the whole store
\* unchanged, snapshot changelog data and the block height included, and the
\* same call made again on the store they leave returns the same result.
C11_ListingsReadOnly ==
    [][IsListing(last') =>
        /\ storage' = storage
        /\ height' = height
        /\ written' = written
        /\ Rerun(last', storage') = [ok |-> last'.ok, err |-> last'.err,
                                     items |-> last'.items]]_vars

\* A listing of the stakers of an asset returned both stakers, with lock
\* entries, pools, rewards and snapshot changelog data in the store.
C11_Witness ==
    /\ last.op = "stakers_read.range"
    /\ Len(last.items) = 2
    /\ ChangelogSize(storage) >= 1
    /\ read_all_pool_infos(storage).items # <<>>
    /\ rewards_read_range(storage, ListingStaker).items # <<>>
    /\ LockEntries(storage, ListingAsset, ListingStaker) # {}

-----------------------------------------------------------------------------
(* The queue with amounts at the top of the amount type                    *)

LargeAmounts == {1, MaxUint128 - 1, MaxUint128}

NextLarge ==
    \/ \E a \in QueueAssets, u \in QueueUsers, t \in Times, amt \in LargeAmounts :
          InsertLockInfo(a, u, t, 0, amt)
    \/ \E a \in QueueAssets, u \in QueueUsers, t \in DrainTimes :
          RemoveAndAccumulateLockInfo(a, u, t, 0)

SpecLarge == Init /\ [][NextLarge]_vars

-----------------------------------------------------------------------------
(* C12 *)

\* C12: when the sum of the matured amounts exceeds the range of the amount
\* type, remove_and_accumulate_lock_info signals the overflow of the addition
\* (the Uint128 addition panics, which aborts the call): it returns no total,
\* wrapped or otherwise, and removes no entry; when the sum fits, the call
\* succeeds and returns it.
C12_OverflowSignalled ==
    [][IsDrain(last') =>
        LET before == LockEntries(storage, last'.asset, last'.user)
            matured == {e \in before : e.time <= last'.time}
        IN IF SumAmounts(matured) > MaxUint128
           THEN /\ ~last'.ok
                /\ last'.err = "attempt to add with overflow"
                /\ last'.total = 0
                /\ storage' = storage
           ELSE /\ last'.ok
                /\ last'.total = SumAmounts(matured)]_vars

\* The queue {10: 1, 20: MaxUint128, 30: 1} drained at 30: the call failed and
\* the three entries are still there.
C12_Witness ==
    /\ IsDrain(last) /\ last.time = 30 /\ ~last.ok
    /\ LockEntries(storage, last.asset, last.user) =
          {[time |-> 10, amount |-> 1], [time |-> 20, amount |-> MaxUint128],
           [time |-> 30, amount |-> 1]}

-----------------------------------------------------------------------------
(* The queue with its history: what was inserted, what the drains          *)
(* returned, and how often each entry was counted                           *)

\* Number of inserts in a history.
MaxInserts == 4

TrackedAmounts == {3, 5}

\* insert_lock_info, recorded: a new entry at time t, counted by no drain yet.
TrackedInsert(a, u, t, amt) ==
    /\ hist.inserts < MaxInserts
    /\ storage' = insert_lock_info(storage, a, u, LockInfo(amt, Timestamp(t, 0)))
    /\ last' = [NoCall EXCEPT !.op = "insert_lock_info", !.asset = a, !.user = u,
                              !.time = t, !.amount = amt,
                              !.had = Has(storage, LockBucket(a, u) \o to_be_bytes(t))]
    /\ hist' = [hist EXCEPT
                   !.inserts = @ + 1,
                   !.inserted = @ + amt,
                   !.overwrote = @ \/ Has(storage, LockBucket(a, u) \o to_be_bytes(t)),
                   !.counted = [x \in (DOMAIN @) \cup {t} |-> IF x = t THEN 0 ELSE @[x]]]
    /\ UNCHANGED <<height, written, unpaired>>

\* remove_and_accumulate_lock_info, recorded: the total is added to what the
\* drains returned, and every entry the scan added to the total is counted
\* once more.
TrackedDrain(a, u, t) ==
    LET r == remove_and_accumulate_lock_info(storage, a, u, Timestamp(t, 0))
        counted == {from_be_bytes(r.counted[i]) : i \in 1..Len(r.counted)}
    IN /\ storage' = r.storage
       /\ last' = [NoCall EXCEPT !.op = "remove_and_accumulate_lock_info", !.asset = a,
                                 !.user = u, !.time = t,
                                 !.ok = r.ok, !.err = r.err, !.total = r.total]
       /\ hist' = [hist EXCEPT
                      !.drained = @ + r.total,
                      !.counted = [x \in DOMAIN @ |->
                                      IF x \in counted THEN @[x] + 1 ELSE @[x]]]
       /\ UNCHANGED <<height, written, unpaired>>

NextTracked ==
    \/ \E a \in QueueAssets, u \in QueueUsers, t \in Times, amt \in TrackedAmounts :
          TrackedInsert(a, u, t, amt)
    \/ \E a \in QueueAssets, u \in QueueUsers, t \in DrainTimes : TrackedDrain(a, u, t)

SpecTracked == Init /\ [][NextTracked]_vars

-----------------------------------------------------------------------------
(* C13 *)

\* The unlock times of the entries the step's drain added to its total.
CountedNow == {t \in DOMAIN hist.counted : hist'.counted[t] > hist.counted[t]}

\* C13: over any sequence of inserts and drains on one (asset, staker), a
\* drain at T adds to its total only entries with unlock time <= T (the total
\* is the sum of the entries it counted), removes no entry with unlock time
\* > T, and no stored entry is ever counted by more than one drain.
C13_NoEarlyNoDouble ==
    [][IsDrain(last') =>
        LET before == LockEntries(storage, last'.asset, last'.user)
            after == LockEntries(storage', last'.asset, last'.user)
        IN /\ \A t \in CountedNow : t <= last'.time
           /\ last'.total = SumAmounts({e \in before : e.time \in CountedNow})
           /\ \A e \in before : e.time > last'.time => e \in after
           /\ \A t \in DOMAIN hist'.counted : hist'.counted[t] <= 1]_vars

\* An entry at 10 was drained, inserted again and drained again at 10, each
\* time counted once, while the later entry at 20 is still in the queue,
\* counted by no drain.
C13_Witness ==
    /\ IsDrain(last) /\ last.time = 10 /\ last.total > 0
    /\ hist.inserts >= 3
    /\ hist.drained > last.total
    /\ hist.counted[10] = 1
    /\ 20 \in DOMAIN hist.counted /\ hist.counted[20] = 0
    /\ \E e \in LockEntries(storage, last.asset, last.user) : e.time = 20

-----------------------------------------------------------------------------
(* C17 *)

\* C17: as long as no insert has targeted a timestamp that held an entry,
\* the sum of all inserted amounts equals the sum of the totals the drains
\* returned plus the sum of the amounts still in the queue.
C17_Conservation ==
    ~hist.overwrote =>
        \A a \in QueueAssets, u \in QueueUsers :
            hist.inserted = hist.drained + SumAmounts(LockEntries(storage, a, u))

\* Three inserts at distinct times, one part drained, one part still queued.
C17_Witness ==
    /\ ~hist.overwrote
    /\ hist.inserts >= 3
    /\ hist.drained > 0
    /\ hist.drained < hist.inserted
    /\ IsDrain(last) /\ last.total > 0

-----------------------------------------------------------------------------
(* Config, reward rates and unbonding periods                               *)

Config(owner, rewarder) == [owner |-> owner, rewarder |-> rewarder]

\* singleton(storage, KEY_CONFIG): one record under the length-prefixed key.
ConfigKey == to_length_prefixed(KEY_CONFIG)

store_config(s, config) == Set(s, ConfigKey, Ser("Config", config))

read_config(s) == BucketLoad(s, ConfigKey, <<>>, "Config")

\* Bucket::new(storage, PREFIX_REWARDS_PER_SEC)
RewardsPerSecBucket == to_length_prefixed(PREFIX_REWARDS_PER_SEC)

store_rewards_per_sec(s, asset_key, assets) ==
    BucketSave(s, RewardsPerSecBucket, asset_key, Ser("Vec<AssetRaw>", assets))

read_rewards_per_sec(s, asset_key) ==
    BucketLoad(s, RewardsPerSecBucket, asset_key, "Vec<AssetRaw>")

\* Bucket::new(storage, UNBONDING_PERIOD)
UnbondingPeriodBucket == to_length_prefixed(UNBONDING_PERIOD)

store_unbonding_period(s, asset_key, period) ==
    BucketSave(s, UnbondingPeriodBucket, asset_key, Ser("u64", <<period>>))

read_unbonding_period(s, asset_key) ==
    BucketLoad(s, UnbondingPeriodBucket, asset_key, "u64")

StoreConfig(owner, rewarder) ==
    /\ storage' = store_config(storage, Config(owner, rewarder))
    /\ last' = [NoCall EXCEPT !.op = "store_config", !.user = owner]
    /\ UNCHANGED <<height, written, unpaired, hist>>

StoreRewardsPerSec(a, assets) ==
    /\ storage' = store_rewards_per_sec(storage, a, assets)
    /\ last' = [NoCall EXCEPT !.op = "store_rewards_per_sec", !.asset = a]
    /\ UNCHANGED <<height, written, unpaired, hist>>

StoreUnbondingPeriod(a, period) ==
    /\ storage' = store_unbonding_period(storage, a, period)
    /\ last' = [NoCall EXCEPT !.op = "store_unbonding_period", !.asset = a,
                              !.amount = period]
    /\ UNCHANGED <<height, written, unpaired, hist>>

-----------------------------------------------------------------------------
(* Two queues next to the other components                                  *)

\* Two (asset, staker) pairs whose keys are the same bytes when concatenated.
FramePairs == {<<<<97>>, <<98, 117>>>>, <<<<97, 98>>, <<117>>>>}

FrameTimes == {10, 20}

FrameAmounts == {3}

FrameAsset == <<97>>

FrameStaker == <<117>>

NextFrame ==
    \/ \E p \in FramePairs, t \in FrameTimes, amt \in FrameAmounts :
          InsertLockInfo(p[1], p[2], t, 0, amt)
    \/ \E p \in FramePairs, t \in FrameTimes :
          RemoveAndAccumulateLockInfo(p[1], p[2], t, 0)
    \/ StoreConfig(FrameStaker, FrameStaker)
    \/ StorePoolInfo(FrameAsset, 1)
    \/ RewardsSave(FrameStaker, FrameAsset, 1)
    \/ StakersSave(FrameAsset, FrameStaker)
    \/ StoreRewardsPerSec(FrameAsset, <<<<FrameAsset, 1>>>>)
    \/ StoreUnbondingPeriod(FrameAsset, 10)

SpecFrame == Init /\ [][NextFrame]_vars

-----------------------------------------------------------------------------
(* C14 *)

\* What the other components read from store s.
OtherComponents(s) ==
    [config |-> read_config(s),
     pools |-> [a \in AssetKeys |-> read_pool_info(s, a)],
     rewards |-> [a \in AssetKeys |-> [st \in Stakers |-> rewards_read_load(s, st, a)]],
     stakers |-> [a \in AssetKeys |-> stakers_read_range(s, a)],
     rates |-> [a \in AssetKeys |-> read_rewards_per_sec(s, a)],
     periods |-> [a \in AssetKeys |-> read_unbonding_period(s, a)]]

\* The queues of every (asset, staker) other than (a, u).
OtherQueues(s, a, u) ==
    [p \in {q \in AssetKeys \X Stakers : q # <<a, u>>} |-> LockEntries(s, p[1], p[2])]

\* Every record the components address with the keys of the model, and the
\* storage key it is kept under.
AddressedKeys ==
    {<<<<"config">>, ConfigKey>>}
    \cup {<<<<"pool", a>>, PoolBucket \o a>> : a \in AssetKeys}
    \cup {<<<<"rate", a>>, RewardsPerSecBucket \o a>> : a \in AssetKeys}
    \cup {<<<<"period", a>>, UnbondingPeriodBucket \o a>> : a \in AssetKeys}
    \cup {<<<<"reward", q[2], q[1]>>, RewardBucket(q[2]) \o q[1]>> : q \in AssetKeys \X Stakers}
    \cup {<<<<"staker", q[1], q[2]>>, StakerBucket(q[1]) \o q[2]>> : q \in AssetKeys \X Stakers}
    \cup {<<<<"lock", q[1], q[2], q[3]>>, LockBucket(q[1], q[2]) \o to_be_bytes(q[3])>> :
             q \in AssetKeys \X Stakers \X FrameTimes}

\* C14: insert_lock_info and remove_and_accumulate_lock_info on one (asset,
\* staker) leave the queue of every other (asset', staker') and every other
\* component (config, pool infos, reward infos, staker registry, reward
\* rates, unbonding periods) unchanged, and no two records of the components
\* or of the queues are kept under the same storage key.
C14_QueueFrame ==
    [][(IsInsert(last') \/ IsDrain(last')) =>
        /\ OtherQueues(storage', last'.asset, last'.user) =
              OtherQueues(storage, last'.asset, last'.user)
        /\ OtherComponents(storage') = OtherComponents(storage)
        /\ \A x, y \in AddressedKeys : x[2] = y[2] => x[1] = y[1]]_vars

\* A drain on (<<97>>, <<98, 117>>) returned an amount while the queue of
\* (<<97, 98>>, <<117>>) and every other component held records.
C14_Witness ==
    /\ IsDrain(last) /\ last.total > 0
    /\ last.asset = <<97>> /\ last.user = <<98, 117>>
    /\ LockEntries(storage, <<97, 98>>, <<117>>) # {}
    /\ read_config(storage).ok
    /\ read_pool_info(storage, FrameAsset).ok
    /\ rewards_read_load(storage, FrameStaker, FrameAsset).ok
    /\ stakers_read_range(storage, FrameAsset).items # <<>>
    /\ read_rewards_per_sec(storage, FrameAsset).ok
    /\ read_unbonding_period(storage, FrameAsset).ok

-----------------------------------------------------------------------------
(* Several keys in each snapshot map                                        *)

\* Two (asset, staker) keys of STAKED_BALANCES whose parts are the same bytes
\* when concatenated, and one asset of STAKED_TOTAL.
FramedSnapshotKeys ==
    {<<STAKED_BALANCES, <<<<97>>, <<98, 117>>>>>>,
     <<STAKED_BALANCES, <<<<97, 98>>, <<117>>>>>>,
     <<STAKED_TOTAL, <<<<97>>>>>>}

\* The versions read: before, at and after each block that writes.
FramedVersions == {0, 1, 2, 5, 6, 9, 10, 100}

FramedBlockJumps == {4}

NextSnapshotKeys ==
    \/ \E mk \in FramedSnapshotKeys, v \in SnapshotValues : SnapshotSave(mk[1], mk[2], v)
    \/ \E d \in FramedBlockJumps : NextBlock(d)

SpecSnapshotKeys == Init /\ [][NextSnapshotKeys]_vars

-----------------------------------------------------------------------------
(* C15 *)

\* What key k of map m reads now and at every queried version.
SnapshotReads(s, m, k) ==
    [current |-> snapshot_may_load(s, m, k),
     at |-> [V \in FramedVersions |-> snapshot_may_load_at_height(s, m, k, V)]]

\* C15: a write to one key of a snapshot map changes neither the current
\* read nor any read-at-version of another key of that map, and a write to
\* STAKED_BALANCES changes no read of STAKED_TOTAL, and the other way round.
C15_SnapshotKeyFrame ==
    [][last'.op = "snapshot.save" =>
        \A mk \in FramedSnapshotKeys :
            (mk[1].name # last'.map \/ mk[2] # last'.key) =>
                SnapshotReads(storage', mk[1], mk[2]) = SnapshotReads(storage, mk[1], mk[2])]_vars

\* A write to (<<97>>, <<98, 117>>) of STAKED_BALANCES in block 5 while the
\* other key of the map and a key of STAKED_TOTAL hold values written in
\* block 1.
C15_Witness ==
    /\ last.op = "snapshot.save" /\ last.map = "STAKED_BALANCES"
    /\ last.key = <<<<97>>, <<98, 117>>>>
    /\ height = 5
    /\ snapshot_may_load(storage, STAKED_BALANCES, <<<<97, 98>>, <<117>>>>) = Some(1)
    /\ snapshot_may_load(storage, STAKED_BALANCES, <<<<97>>, <<98, 117>>>>) = Some(2)
    /\ snapshot_may_load(storage, STAKED_TOTAL, <<<<97>>>>) = Some(1)
    /\ DOMAIN WrittenAt(STAKED_BALANCES, <<<<97, 98>>, <<117>>>>) = {1}

-----------------------------------------------------------------------------
(* The key encoding on its own: timestamps around the byte boundaries       *)

\* Unlock times around every byte boundary of the low four bytes of the key.
KeyTimes ==
    {0, 1, 2, 255, 256, 257, 511, 512, 65535, 65536, 65537, 16777215, 16777216,
     2147483647}

InitKeys ==
    /\ storage = EmptyStore
    /\ last \in {[NoCall EXCEPT !.op = "timestamps", !.time = a, !.amount = b] :
                    a \in KeyTimes, b \in KeyTimes}
    /\ height = 1
    /\ written = [m \in {} |-> 0]
    /\ unpaired = FALSE
    /\ hist = NoHist

\* The keys of the two timestamps are built and compared as the drain's
\* termination test compares them, both are inserted and the bucket is
\* scanned, and a queue holding only the first is drained at the second.
CompareKeys(a, u) ==
    LET ta == last.time
        tb == last.amount
        both == insert_lock_info(insert_lock_info(storage, a, u, LockInfo(1, Timestamp(ta, 0))),
                                 a, u, LockInfo(1, Timestamp(tb, 0)))
        r == remove_and_accumulate_lock_info(
                 insert_lock_info(storage, a, u, LockInfo(1, Timestamp(ta, 0))),
                 a, u, Timestamp(tb, 0))
    IN /\ last.op = "timestamps"
       /\ storage' = both
       /\ last' = [last EXCEPT !.op = "key_order", !.asset = a, !.user = u,
                               !.total = cmp(LockKey(Timestamp(ta, 0)),
                                             LockKey(Timestamp(tb, 0))),
                               !.items = BucketRange(both, LockBucket(a, u), None, None,
                                                     FALSE),
                               !.had = (r.total = 1)]
       /\ UNCHANGED <<height, written, unpaired, hist>>

NextKeys == \E a \in QueueAssets, u \in QueueUsers : CompareKeys(a, u)

SpecKeys == InitKeys /\ [][NextKeys]_vars

-----------------------------------------------------------------------------
(* C16 *)

\* C16: the 8-byte big-endian key encoding preserves order: the byte
\* comparison of the keys of a and b is less / equal / greater exactly when
\* a < b / a = b / a > b.  Hence the range scan returns the keys in numeric
\* order of the timestamps, and the drain's termination test counts an entry
\* at a for a drain at b exactly when a <= b.
C16_KeyOrder ==
    last.op = "key_order" =>
        LET a == last.time
            b == last.amount
            ka == LockKey(Timestamp(a, 0))
            kb == LockKey(Timestamp(b, 0))
        IN /\ Len(ka) = 8 /\ Len(kb) = 8
           /\ (last.total = -1) = (a < b)
           /\ (last.total = 0) = (a = b)
           /\ (last.total = 1) = (a > b)
           /\ last.items = (IF a < b THEN <<ka, kb>> ELSE IF a = b THEN <<ka>> ELSE <<kb, ka>>)
           /\ last.had = (a <= b)

\* 256 and 65535 compared: the low byte of 256 is smaller and its second
\* byte larger.
C16_Witness ==
    /\ last.op = "key_order" /\ last.time = 65535 /\ last.amount = 256
    /\ last.total = 1
    /\ ~last.had
    /\ Len(last.items) = 2

-----------------------------------------------------------------------------
(* C18 *)

\* Draining store s of the queue (a, u) at T1 and then at T2, and draining s
\* once at T2.
TwoDrains(s, a, u, T1, T2) ==
    LET r1 == remove_and_accumulate_lock_info(s, a, u, Timestamp(T1, 0))
        r2 == remove_and_accumulate_lock_info(r1.storage, a, u, Timestamp(T2, 0))
    IN [first |-> r1, second |-> r2,
        single |-> remove_and_accumulate_lock_info(s, a, u, Timestamp(T2, 0))]

Composes(d) ==
    /\ d.first.ok /\ d.second.ok /\ d.single.ok
    /\ d.first.total + d.second.total = d.single.total
    /\ d.second.storage = d.single.storage

\* C18 as stated: for any queue content and T1 <= T2, a drain at T1 followed
\* by a drain at T2 returns two totals whose sum is the total of a single
\* drain at T2, and ends in the same queue.
C18_DrainsCompose ==
    \A a \in QueueAssets, u \in QueueUsers : \A T1, T2 \in DrainTimes :
        T1 <= T2 => Composes(TwoDrains(storage, a, u, T1, T2))

\* C18, amended: the same whenever the amounts matured at T2 sum to a value
\* of the amount type (otherwise the single drain fails on the overflow while
\* the two drains may each succeed); and a drain repeated at the same T
\* returns 0 and changes nothing.
C18_DrainsComposeInRange ==
    \A a \in QueueAssets, u \in QueueUsers : \A T1, T2 \in DrainTimes :
        T1 <= T2 =>
            LET d == TwoDrains(storage, a, u, T1, T2)
                matured == {e \in LockEntries(storage, a, u) : e.time <= T2}
            IN /\ SumAmounts(matured) <= MaxUint128 => Composes(d)
               /\ T1 = T2 => (d.second.total = 0 /\ d.second.storage = d.first.storage)

\* After a drain at 10 that returned an amount, the queue holds entries at 20
\* and 30 that fit the amount type together: draining at 20 and then at 30
\* returns two positive totals.
C18_Witness ==
    /\ IsDrain(last) /\ last.time = 10 /\ last.total > 0
    /\ LET d == TwoDrains(storage, last.asset, last.user, 20, 30)
       IN /\ d.first.total > 0 /\ d.second.total > 0
          /\ d.single.ok /\ d.single.total = d.first.total + d.second.total

-----------------------------------------------------------------------------
(* Cursor pagination over a queue that no longer changes                    *)

PageLimits == {None, Some(1), Some(12), Some(100)}

PageOrders == {None, Some(2)}

\* The first page: read_user_lock_info without a cursor.
FirstPage(a, u, lim, ord) ==
    LET r == read_user_lock_info(storage, a, u, None, lim, ord)
    IN /\ ~hist.paging
       /\ last' = [NoCall EXCEPT !.op = "read_user_lock_info", !.asset = a, !.user = u,
                                 !.limit = lim, !.order = ord,
                                 !.ok = r.ok, !.err = r.err, !.items = r.items]
       /\ hist' = [hist EXCEPT !.paging = TRUE, !.done = (r.items = <<>>),
                               !.calls = 1, !.visited = r.items]
       /\ UNCHANGED <<storage, height, written, unpaired>>

\* The next page: the same call with the unlock time of the last entry
\* returned as start_after, until a page comes back empty.
NextPage ==
    LET cursor == Some(seconds(last.items[Len(last.items)].unlock_time))
        r == read_user_lock_info(storage, last.asset, last.user, cursor, last.limit,
                                 last.order)
    IN /\ hist.paging /\ ~hist.done
       /\ last' = [last EXCEPT !.start_after = cursor,
                               !.ok = r.ok, !.err = r.err, !.items = r.items]
       /\ hist' = [hist EXCEPT !.done = (r.items = <<>>), !.calls = @ + 1,
                               !.visited = @ \o r.items]
       /\ UNCHANGED <<storage, height, written, unpaired>>

NextPaging ==
    \/ \E a \in QueueAssets, u \in QueueUsers :
          \E t \in BulkTimes(storage, a, u), amt \in BulkAmounts :
             ~hist.paging /\ BulkInsertLockInfo(a, u, t, amt)
    \/ \E a \in QueueAssets, u \in QueueUsers, lim \in PageLimits, ord \in PageOrders :
          FirstPage(a, u, lim, ord)
    \/ NextPage

SpecPaging == Init /\ [][NextPaging]_vars

-----------------------------------------------------------------------------
(* C19 *)

\* C19: with the queue unchanged, the pages of read_user_lock_info in one
\* order with a positive limit, each started after the last entry of the page
\* before, visit the entries in that order without repetition and without
\* skipping any; when the empty page is reached every entry has been visited
\* exactly once, and that takes at most one call per entry plus one.
C19_PaginationComplete ==
    hist.paging =>
        LET entries == LockEntries(storage, last.asset, last.user)
            seen == ItemEntries(hist.visited)
            asc == OrderCode(last.order) = 1
        IN /\ last.ok
           /\ IF asc THEN StrictlyIncreasing(hist.visited)
                     ELSE StrictlyDecreasing(hist.visited)
           /\ seen \subseteq entries
           /\ \A e \in entries \ seen : \A x \in seen :
                 IF asc THEN e.time > x.time ELSE e.time < x.time
           /\ hist.done = (last.items = <<>>)
           /\ hist.done => seen = entries
           /\ hist.calls <= Cardinality(entries) + 1

\* A queue of more than MAX_LIMIT entries listed in descending order with
\* limit 100: a page of 30, a page with the rest and the empty page.
C19_Witness ==
    /\ hist.paging /\ hist.done
    /\ last.limit = Some(100) /\ last.order = Some(2)
    /\ hist.calls = 3
    /\ Len(hist.visited) > MAX_LIMIT
    /\ ItemEntries(hist.visited) = LockEntries(storage, last.asset, last.user)

====
